---- MODULE Spec2Model ----
(***************************************************************************)
(* Environmental Policy Impact Monitor (src/app.py).                       *)
(*                                                                         *)
(* Text is a tuple of one-character strings, so that strip, lower, slicing *)
(* and substring search are computed; a table cell is a tagged record      *)
(* (text, number or NaN); a DataFrame is [columns, rows].                  *)
(***************************************************************************)
EXTENDS Integers, Sequences, FiniteSets, TLC

(***************************************************************************)
(* Bounds of the model.                                                    *)
(***************************************************************************)
MaxPages == 3
MaxApiPages == 3
MaxAgencies == 3
MaxWideRows == 2

(***************************************************************************)
(* Program constants.                                                      *)
(***************************************************************************)
YearChars == 4
HeadRows == 5
LabelChars == 35

(***************************************************************************)
(* Text.                                                                   *)
(***************************************************************************)
UpperChars == <<"A","B","C","D","E","F","G","H","I","J","K","L","M",
                "N","O","P","Q","R","S","T","U","V","W","X","Y","Z">>
LowerChars == <<"a","b","c","d","e","f","g","h","i","j","k","l","m",
                "n","o","p","q","r","s","t","u","v","w","x","y","z">>
DigitChars == <<"0","1","2","3","4","5","6","7","8","9">>

IsDigit(c) == \E i \in DOMAIN DigitChars : DigitChars[i] = c
DigitVal(c) == (CHOOSE i \in DOMAIN DigitChars : DigitChars[i] = c) - 1

LowerChar(c) ==
    IF \E i \in DOMAIN UpperChars : UpperChars[i] = c
    THEN LowerChars[CHOOSE i \in DOMAIN UpperChars : UpperChars[i] = c]
    ELSE c

\* str.lower()
Lower(s) == [i \in 1..Len(s) |-> LowerChar(s[i])]

\* k in s
Contains(s, k) ==
    \E i \in 1..(Len(s) - Len(k) + 1) : SubSeq(s, i, i + Len(k) - 1) = k

\* s[:n]
Take(s, n) == SubSeq(s, 1, IF Len(s) < n THEN Len(s) ELSE n)

\* str.strip()
Strip(s) ==
    LET inked == {i \in 1..Len(s) : s[i] # " "}
        lo == CHOOSE i \in inked : \A j \in inked : i <= j
        hi == CHOOSE i \in inked : \A j \in inked : j <= i
    IN  IF inked = {} THEN <<>> ELSE SubSeq(s, lo, hi)

(***************************************************************************)
(* Cells and frames.                                                       *)
(***************************************************************************)
Str(s) == [k |-> "str", v |-> s]
Num(n) == [k |-> "num", v |-> n]
NaN == [k |-> "nan", v |-> 0]

IsNull(c) == c.k = "nan"

\* pd.DataFrame()
EmptyFrame == [columns |-> <<>>, rows |-> <<>>]

\* DataFrame.empty
IsEmpty(df) == Len(df.columns) = 0 \/ Len(df.rows) = 0

HasColumn(df, name) == \E j \in 1..Len(df.columns) : df.columns[j] = name

ColIndex(df, name) == CHOOSE j \in 1..Len(df.columns) : df.columns[j] = name

\* row[name] of a frame that has the column
Cell(df, i, name) == df.rows[i][ColIndex(df, name)]

(***************************************************************************)
(* Text literals of the program and of the pages served.                   *)
(***************************************************************************)
tPolicy == <<"P","o","l","i","c","y">>
tAdoptionDate == <<"A","d","o","p","t","i","o","n","D","a","t","e">>
tRegion == <<"R","e","g","i","o","n">>
tCountry == <<"C","o","u","n","t","r","y">>
tYearPadded == <<" ","Y","e","a","r"," ">>
tName == <<"N","a","m","e">>
tUPDATED == <<"U","P","D","A","T","E","D">>
tStartYear == <<"S","t","a","r","t"," ","Y","e","a","r">>
tImplementationYear == <<"i","m","p","l","e","m","e","n","t","a","t","i","o","n","_","y","e","a","r">>
tPolicyName == <<"p","o","l","i","c","y","_","n","a","m","e">>
tNetZeroAct == <<"N","e","t","-","Z","e","r","o"," ","A","c","t">>
tDate2020 == <<"2","0","2","0","-","0","5","-","0","1">>
tEU == <<"E","U">>
tIndia == <<"I","n","d","i","a">>
tINDIA == <<"I","N","D","I","A">>
tSolarMission == <<"S","o","l","a","r"," ","M","i","s","s","i","o","n">>
t2015 == <<"2","0","1","5">>
tCarbonTax == <<"C","a","r","b","o","n"," ","T","a","x">>
tCoalExit == <<"C","o","a","l"," ","E","x","i","t">>
tNA == <<"n","/","a">>
t2020x == <<"2","0","2","0"," ","(","r","e","v",".",")">>
tnan == <<"n","a","n">>
tDots == <<".",".",".">>
kYear == <<"y","e","a","r">>
kStart == <<"s","t","a","r","t">>
kDate == <<"d","a","t","e">>
kAdopt == <<"a","d","o","p","t">>

\* line 48: the keywords of the year-column detection
YearKeywords == <<kYear, kStart, kDate, kAdopt>>

(***************************************************************************)
(* The tables the policy site may serve on a page (pd.read_html(url)[0]).  *)
(* PageScenario is the one-row table of the spec's scenario; PageCountry   *)
(* has a Country column, a padded year header, a missing policy name and   *)
(* rows of two countries and two years;                                    *)
(* PageAmbiguous has two qualifying columns, the first one holding text    *)
(* that does not parse, and no Policy column; PageNoYear has no qualifying *)
(* column; PageHeaderOnly has no body row.                                 *)
(***************************************************************************)
PageScenario ==
    [columns |-> <<tPolicy, tAdoptionDate, tRegion>>,
     rows |-> << <<Str(tNetZeroAct), Str(tDate2020), Str(tEU)>> >>]
PageCountry ==
    [columns |-> <<tCountry, tPolicy, tYearPadded>>,
     rows |-> << <<Str(tIndia), Str(tSolarMission), Str(t2015)>>,
                 <<Str(tINDIA), NaN, Str(t2015)>>,
                 <<Str(tEU), Str(tCoalExit), Str(tDate2020)>>,
                 <<Str(tEU), Str(tCarbonTax), Str(t2015)>> >>]
PageAmbiguous ==
    [columns |-> <<tName, tUPDATED, tStartYear>>,
     rows |-> << <<Str(tCarbonTax), Str(tNA), Str(t2015)>>,
                 <<Str(tCoalExit), Str(t2020x), Str(t2015)>> >>]
PageNoYear ==
    [columns |-> <<tPolicy, tRegion>>,
     rows |-> << <<Str(tCoalExit), Str(tEU)>> >>]
PageHeaderOnly ==
    [columns |-> <<tPolicy, tYearPadded>>, rows |-> <<>>]

PageTables == {PageScenario, PageCountry, PageAmbiguous, PageNoYear, PageHeaderOnly}

\* the sidebar's inputs
PolicyYears == {2015, 2020}
Countries == {tIndia, tEU}

(***************************************************************************)
(* State.                                                                  *)
(***************************************************************************)
VARIABLES
    \* extract_policies_cpd
    max_pages,       \* the argument
    page,            \* the loop index of line 31
    all_dfs,         \* line 29
    requested,       \* the page indices whose url was fetched, in order
    served,          \* what each fetch gave: [ok, df]
    cpd_pc,          \* "loop", "break", "done"
    cpd_df,          \* line 42-43: the concatenated frame, headers stripped
    year_col,        \* line 46-50: <<>> for None, <<name>> otherwise
    policy_df,       \* line 122: the value extract_policies_cpd returned
    \* tab1, policy overlay
    policy_year,     \* line 91
    country,         \* line 81
    policy_year_df,  \* lines 125-133
    row_i,           \* position of the iterrows loop of line 135
    texts,           \* the labels drawn by lines 136-149
    shown,           \* the frame handed to st.dataframe at line 177
    tab_pc           \* "start", "rows", "table", "done", "raised"

cpdVars == <<max_pages, page, all_dfs, requested, served, cpd_pc, cpd_df,
             year_col, policy_df>>
tabVars == <<policy_year, country, policy_year_df, row_i, texts, shown, tab_pc>>

VARIABLES
    \* extract_environment_policies
    year,            \* the argument
    api_max_pages,   \* the argument, 3 by default
    api_page,        \* the loop index of line 187
    all_records,     \* line 185
    api_requested,   \* the "page" parameter of each request sent, in order
    api_served,      \* the response each request got
    api_pc,          \* "loop", "break", "done"
    api_result       \* line 223: the rows of the frame returned

apiVars == <<year, api_max_pages, api_page, all_records, api_requested, api_served, api_pc, api_result>>

VARIABLES
    \* lines 207-221, one item
    item,            \* the raw item
    agency_i,        \* position of the comprehension of lines 209-212
    agency_names,    \* line 209
    record,          \* the dict appended at line 214, <<>> before
    item_pc          \* "names", "done"

itemVars == <<item, agency_i, agency_names, record, item_pc>>

VARIABLES
    \* tab1, emissions
    wide_df,         \* line 75: df
    sector,          \* line 86
    long_df,         \* lines 100-109, a sequence of points
    plot_df,         \* line 111
    before,          \* line 161
    after,           \* line 162
    c1, c2, c3,      \* the values the metrics of lines 167-173 show
    em_pc            \* "start", "summary", "done"

emVars == <<wide_df, sector, long_df, plot_df, before, after, c1, c2, c3, em_pc>>

(***************************************************************************)
(* extract_policies_cpd: the normalizer (lines 42-63).                     *)
(***************************************************************************)
RECURSIVE AppendNew(_, _)
AppendNew(cols, more) ==
    IF more = <<>> THEN cols
    ELSE AppendNew(IF \E j \in 1..Len(cols) : cols[j] = Head(more)
                   THEN cols ELSE Append(cols, Head(more)),
                   Tail(more))

RECURSIVE ConcatColumns(_, _)
ConcatColumns(acc, dfs) ==
    IF dfs = <<>> THEN acc
    ELSE ConcatColumns(AppendNew(acc, Head(dfs).columns), Tail(dfs))

\* the rows of df laid out on cols, NaN where df lacks the column
Reindex(df, cols) ==
    [i \in 1..Len(df.rows) |->
        [j \in 1..Len(cols) |->
            IF HasColumn(df, cols[j]) THEN Cell(df, i, cols[j]) ELSE NaN]]

RECURSIVE ConcatRows(_, _)
ConcatRows(dfs, cols) ==
    IF dfs = <<>> THEN <<>>
    ELSE Reindex(Head(dfs), cols) \o ConcatRows(Tail(dfs), cols)

\* line 42: pd.concat(all_dfs, ignore_index=True)
Concat(dfs) ==
    LET cols == ConcatColumns(<<>>, dfs)
    IN  [columns |-> cols, rows |-> ConcatRows(dfs, cols)]

\* line 43
StripColumns(df) ==
    [columns |-> [j \in 1..Len(df.columns) |-> Strip(df.columns[j])],
     rows |-> df.rows]

\* line 48: any(k in col.lower() for k in [...])
Qualifies(col) ==
    \E k \in 1..Len(YearKeywords) : Contains(Lower(col), YearKeywords[k])

\* DetectYearCol without the break: the last qualifying column wins
DetectYearColLast(columns) ==
    LET hits == {j \in 1..Len(columns) : Qualifies(columns[j])}
    IN  IF hits = {} THEN <<>>
        ELSE <<columns[CHOOSE j \in hits : \A h \in hits : h <= j]>>

\* lines 46-50
DetectYearCol(columns) ==
    LET hits == {j \in 1..Len(columns) : Qualifies(columns[j])}
    IN  IF hits = {} THEN <<>>
        ELSE <<columns[CHOOSE j \in hits : \A h \in hits : j <= h]>>

\* .astype(str) of a cell
AsStr(c) == IF c.k = "nan" THEN tnan ELSE c.v

RECURSIVE DigitsValue(_)
DigitsValue(s) ==
    IF s = <<>> THEN 0
    ELSE 10 * DigitsValue(SubSeq(s, 1, Len(s) - 1)) + DigitVal(s[Len(s)])

\* pd.to_numeric(text, errors="coerce") on signed decimal digit strings; any
\* other text of the pages served ("nan" included) coerces to NaN
ToNumeric(t) ==
    LET signed == Len(t) > 0 /\ t[1] \in {"-", "+"}
        body == IF signed THEN Tail(t) ELSE t
    IN  IF Len(body) > 0 /\ \A i \in 1..Len(body) : IsDigit(body[i])
        THEN Num(IF signed /\ t[1] = "-" THEN 0 - DigitsValue(body)
                 ELSE DigitsValue(body))
        ELSE NaN

\* ParseYear without the [:4] slice
ParseYearUnsliced(c) == ToNumeric(AsStr(c))

\* lines 55-58
ParseYear(c) == ToNumeric(Take(AsStr(c), YearChars))

\* lines 55-58 on the frame
WithYear(df, name) ==
    [columns |-> df.columns,
     rows |-> [i \in 1..Len(df.rows) |->
                 [j \in 1..Len(df.columns) |->
                     IF df.columns[j] = name THEN ParseYear(df.rows[i][j])
                     ELSE df.rows[i][j]]]]

\* lines 60-63
Rename(df, name) ==
    [columns |-> [j \in 1..Len(df.columns) |->
                     IF df.columns[j] = name THEN tImplementationYear
                     ELSE IF df.columns[j] = tPolicy THEN tPolicyName
                     ELSE df.columns[j]],
     rows |-> df.rows]

\* lines 39-63
Normalize(dfs) ==
    LET df == StripColumns(Concat(dfs))
        yc == DetectYearCol(df.columns)
    IN  IF dfs = <<>> \/ yc = <<>> THEN EmptyFrame
        ELSE Rename(WithYear(df, yc[1]), yc[1])

(***************************************************************************)
(* tab1, policy overlay: the filters of lines 125-133.                     *)
(***************************************************************************)
RECURSIVE PickRows(_, _, _)
PickRows(rows, i, keep) ==
    IF i > Len(rows) THEN <<>>
    ELSE (IF i \in keep THEN <<rows[i]>> ELSE <<>>) \o PickRows(rows, i + 1, keep)

\* df[mask]: the rows whose index is in keep, in table order
Mask(df, keep) == [columns |-> df.columns, rows |-> PickRows(df.rows, 1, keep)]

\* YearMatches with >= for ==
YearMatchesFrom(c, y) == c.k = "num" /\ c.v >= y

\* line 125
YearMatches(c, y) == c.k = "num" /\ c.v = y

YearFilter(df, y) ==
    Mask(df, {i \in 1..Len(df.rows) : YearMatches(Cell(df, i, tImplementationYear), y)})

\* line 130: str.contains(country, case=False, na=False), names being letters
CountryMatches(c, name) == c.k = "str" /\ Contains(Lower(c.v), Lower(name))

\* lines 128-131
CountryFilter(df, name) ==
    IF HasColumn(df, tCountry)
    THEN Mask(df, {i \in 1..Len(df.rows) : CountryMatches(Cell(df, i, tCountry), name)})
    ELSE df

\* line 133
HeadOf(df) == [columns |-> df.columns, rows |-> Take(df.rows, HeadRows)]

\* lines 125-133
MatchedPolicies(df, y, name) == HeadOf(CountryFilter(YearFilter(df, y), name))

\* line 178: policy_year_df[["policy_name", "implementation_year"]]
Project(df) ==
    [columns |-> <<tPolicyName, tImplementationYear>>,
     rows |-> [i \in 1..Len(df.rows) |->
                 <<Cell(df, i, tPolicyName), Cell(df, i, tImplementationYear)>>]]

(***************************************************************************)
(* extract_policies_cpd: the page loop (lines 28-40).                      *)
(***************************************************************************)
\* lines 31-35: the page parses
FetchOk ==
    /\ cpd_pc = "loop"
    /\ page < max_pages
    /\ \E df \in PageTables :
          /\ all_dfs' = Append(all_dfs, df)
          /\ served' = Append(served, [ok |-> TRUE, df |-> df])
    /\ requested' = Append(requested, page)
    /\ page' = page + 1
    /\ UNCHANGED <<max_pages, cpd_pc, cpd_df, year_col, policy_df>>
    /\ UNCHANGED <<tabVars, apiVars, itemVars, emVars>>

\* FetchFail with `continue` for `break`
FetchFailContinue ==
    /\ cpd_pc = "loop"
    /\ page < max_pages
    /\ requested' = Append(requested, page)
    /\ served' = Append(served, [ok |-> FALSE, df |-> EmptyFrame])
    /\ page' = page + 1
    /\ UNCHANGED <<max_pages, cpd_pc, all_dfs, cpd_df, year_col, policy_df>>
    /\ UNCHANGED <<tabVars, apiVars, itemVars, emVars>>

\* lines 31-37: read_html raises
FetchFail ==
    /\ cpd_pc = "loop"
    /\ page < max_pages
    /\ requested' = Append(requested, page)
    /\ served' = Append(served, [ok |-> FALSE, df |-> EmptyFrame])
    /\ cpd_pc' = "break"
    /\ UNCHANGED <<max_pages, page, all_dfs, cpd_df, year_col, policy_df>>
    /\ UNCHANGED <<tabVars, apiVars, itemVars, emVars>>

\* lines 39-63, and line 122 receiving the value
Return ==
    /\ \/ cpd_pc = "break"
       \/ cpd_pc = "loop" /\ page = max_pages
    /\ cpd_df' = IF all_dfs = <<>> THEN EmptyFrame ELSE StripColumns(Concat(all_dfs))
    /\ year_col' = IF all_dfs = <<>> THEN <<>> ELSE DetectYearCol(cpd_df'.columns)
    /\ policy_df' = Normalize(all_dfs)
    /\ cpd_pc' = "done"
    /\ UNCHANGED <<max_pages, page, all_dfs, requested, served>>
    /\ UNCHANGED <<tabVars, apiVars, itemVars, emVars>>

(***************************************************************************)
(* tab1, policy overlay (lines 122-149) and table (lines 175-180).         *)
(***************************************************************************)
\* lines 124-133
OverlayFilter ==
    /\ cpd_pc = "done"
    /\ tab_pc = "start"
    /\ IF IsEmpty(policy_df)
       THEN /\ tab_pc' = "table"
            /\ UNCHANGED <<policy_year_df, row_i>>
       ELSE /\ policy_year_df' = MatchedPolicies(policy_df, policy_year, country)
            /\ row_i' = 1
            /\ tab_pc' = "rows"
    /\ UNCHANGED <<policy_year, country, texts, shown>>
    /\ UNCHANGED <<cpdVars, apiVars, itemVars, emVars>>

\* row["policy_name"][:35] of line 145 evaluates
LabelReadable(df, i) ==
    HasColumn(df, tPolicyName) /\ Cell(df, i, tPolicyName).k = "str"

\* lines 135-149, one row drawn
OverlayRow ==
    /\ tab_pc = "rows"
    /\ row_i <= Len(policy_year_df.rows)
    /\ LabelReadable(policy_year_df, row_i)
    /\ texts' = Append(texts,
                  [x |-> Cell(policy_year_df, row_i, tImplementationYear).v,
                   s |-> Take(Cell(policy_year_df, row_i, tPolicyName).v, LabelChars)
                         \o tDots])
    /\ row_i' = row_i + 1
    /\ UNCHANGED <<policy_year, country, policy_year_df, shown, tab_pc>>
    /\ UNCHANGED <<cpdVars, apiVars, itemVars, emVars>>

\* line 145 raises: KeyError (no policy_name column) or TypeError (NaN value)
OverlayRowRaise ==
    /\ tab_pc = "rows"
    /\ row_i <= Len(policy_year_df.rows)
    /\ ~LabelReadable(policy_year_df, row_i)
    /\ tab_pc' = "raised"
    /\ UNCHANGED <<policy_year, country, policy_year_df, row_i, texts, shown>>
    /\ UNCHANGED <<cpdVars, apiVars, itemVars, emVars>>

AtTable ==
    \/ tab_pc = "table"
    \/ tab_pc = "rows" /\ row_i > Len(policy_year_df.rows)

TableWanted == ~IsEmpty(policy_df) /\ ~IsEmpty(policy_year_df)

\* lines 175-180; line 178 raises KeyError without a policy_name column
MatchedTable ==
    /\ AtTable
    /\ TableWanted
    /\ IF HasColumn(policy_year_df, tPolicyName)
       THEN /\ shown' = Project(policy_year_df)
            /\ tab_pc' = "done"
       ELSE /\ tab_pc' = "raised"
            /\ UNCHANGED shown
    /\ UNCHANGED <<policy_year, country, policy_year_df, row_i, texts>>
    /\ UNCHANGED <<cpdVars, apiVars, itemVars, emVars>>

\* line 175 false
MatchedTableSkip ==
    /\ AtTable
    /\ ~TableWanted
    /\ tab_pc' = "done"
    /\ UNCHANGED <<policy_year, country, policy_year_df, row_i, texts, shown>>
    /\ UNCHANGED <<cpdVars, apiVars, itemVars, emVars>>

vars == <<cpdVars, tabVars, apiVars, itemVars, emVars>>

\* extract_policies_cpd and tab1 not running
IdleCpd ==
    /\ max_pages = 0
    /\ page = 0
    /\ all_dfs = <<>>
    /\ requested = <<>>
    /\ served = <<>>
    /\ cpd_pc = "idle"
    /\ cpd_df = EmptyFrame
    /\ year_col = <<>>
    /\ policy_df = EmptyFrame
    /\ policy_year_df = EmptyFrame
    /\ row_i = 0
    /\ texts = <<>>
    /\ shown = EmptyFrame
    /\ tab_pc = "idle"

\* no sidebar selection
IdleSidebar ==
    /\ policy_year = 0
    /\ country = <<>>

\* extract_environment_policies not running
IdleApi ==
    /\ year = 0
    /\ api_max_pages = 0
    /\ api_page = 0
    /\ all_records = <<>>
    /\ api_requested = <<>>
    /\ api_served = <<>>
    /\ api_pc = "idle"
    /\ api_result = <<>>

\* no item being converted
IdleItem ==
    /\ item = <<>>
    /\ agency_i = 0
    /\ agency_names = <<>>
    /\ record = <<>>
    /\ item_pc = "idle"

\* tab1's emissions part not running
IdleEm ==
    /\ wide_df = EmptyFrame
    /\ sector = <<>>
    /\ long_df = <<>>
    /\ plot_df = <<>>
    /\ before = NaN
    /\ after = NaN
    /\ c1 = NaN
    /\ c2 = NaN
    /\ c3 = NaN
    /\ em_pc = "idle"

InitCpd ==
    /\ IdleApi
    /\ IdleItem
    /\ IdleEm
    /\ max_pages \in 0..MaxPages
    /\ page = 0
    /\ all_dfs = <<>>
    /\ requested = <<>>
    /\ served = <<>>
    /\ cpd_pc = "loop"
    /\ cpd_df = EmptyFrame
    /\ year_col = <<>>
    /\ policy_df = EmptyFrame
    /\ policy_year \in PolicyYears
    /\ country \in Countries
    /\ policy_year_df = EmptyFrame
    /\ row_i = 0
    /\ texts = <<>>
    /\ shown = EmptyFrame
    /\ tab_pc = "start"

NextCpd ==
    \/ FetchOk
    \/ FetchFail
    \/ Return
    \/ OverlayFilter
    \/ OverlayRow
    \/ OverlayRowRaise
    \/ MatchedTable
    \/ MatchedTableSkip

SpecCpd == InitCpd /\ [][NextCpd]_vars

(***************************************************************************)
(* Claims on extract_policies_cpd and the policy overlay (SpecCpd).        *)
(***************************************************************************)
FailedAt == {i \in 1..Len(served) : ~served[i].ok}

\* C1: the pages harvested are exactly pages 0..k-1 in index order, k being
\* the first page that fails (max_pages if none does); nothing is requested
\* after a failure, no page is requested twice, and a failing page 0 gives
\* an empty result.
C1_HarvestIsPrefixBeforeFirstFailure ==
    /\ Len(served) = Len(requested)
    /\ Len(requested) <= max_pages
    /\ \A i \in 1..Len(requested) : requested[i] = i - 1
    /\ \A i \in FailedAt : i = Len(served)
    /\ FailedAt # {} => cpd_pc # "loop"
    /\ all_dfs = [i \in 1..(Len(served) - Cardinality(FailedAt)) |-> served[i].df]
    /\ cpd_pc = "done" /\ FailedAt = {} => Len(all_dfs) = max_pages
    /\ cpd_pc = "done" /\ 1 \in FailedAt => all_dfs = <<>> /\ policy_df = EmptyFrame

C1_Witness ==
    /\ cpd_pc = "done"
    /\ max_pages >= 3
    /\ requested = <<0, 1>>
    /\ ~served[2].ok
    /\ Len(all_dfs) = 1

\* the leading YearChars characters of a source cell read as a decimal number
LeadingYearText(c) ==
    LET t == Take(AsStr(c), YearChars)
        body == IF Len(t) > 0 /\ t[1] \in {"-", "+"} THEN Tail(t) ELSE t
    IN  Len(body) > 0 /\ \A i \in 1..Len(body) : IsDigit(body[i])

YearColumns(df) == {j \in 1..Len(df.columns) : df.columns[j] = tImplementationYear}

\* C3 as stated: a non-empty normalized result never holds a record whose
\* implementation_year is null.
C3_NonEmptyResultHasNoNullYear ==
    cpd_pc = "done" /\ ~IsEmpty(policy_df) =>
        \A i \in 1..Len(policy_df.rows) :
            ~IsNull(Cell(policy_df, i, tImplementationYear))

\* C3 as amended: a non-empty normalized result has one implementation_year
\* column, every value of which is a number, or null exactly when the leading
\* 4 characters of its source value do not read as a number; such rows are
\* retained.
C3_YearIsNumberOrNullWhenUnparsed ==
    cpd_pc = "done" /\ ~IsEmpty(policy_df) =>
        /\ Cardinality(YearColumns(policy_df)) = 1
        /\ Len(policy_df.rows) = Len(cpd_df.rows)
        /\ \A i \in 1..Len(policy_df.rows) :
              LET c == Cell(policy_df, i, tImplementationYear)
              IN  /\ c.k \in {"num", "nan"}
                  /\ IsNull(c) <=> ~LeadingYearText(Cell(cpd_df, i, year_col[1]))

C3_Witness ==
    /\ cpd_pc = "done"
    /\ ~IsEmpty(policy_df)
    /\ \E i \in 1..Len(policy_df.rows) : IsNull(Cell(policy_df, i, tImplementationYear))
    /\ \E i \in 1..Len(policy_df.rows) : ~IsNull(Cell(policy_df, i, tImplementationYear))

\* the number a text of four digits denotes
FourDigitYear(t) ==
    1000 * DigitVal(t[1]) + 100 * DigitVal(t[2]) + 10 * DigitVal(t[3]) + DigitVal(t[4])

\* C4: the year column is the first column, in column order, whose lowercased
\* name contains "year", "start", "date" or "adopt"; implementation_year is
\* read from the leading 4 characters of its values; no qualifying column
\* gives an empty result; the scenario table gives implementation_year 2020
\* and policy_name "Net-Zero Act".
C4_FirstQualifyingColumnIsYear ==
    cpd_pc = "done" /\ all_dfs # <<>> =>
        LET cols == cpd_df.columns
            hits == {j \in 1..Len(cols) : Qualifies(cols[j])}
        IN  /\ hits = {} => year_col = <<>> /\ policy_df = EmptyFrame
            /\ \A j \in hits :
                  (\A h \in hits : j <= h) =>
                      /\ year_col = <<cols[j]>>
                      /\ policy_df.columns[j] = tImplementationYear
                      /\ \A i \in 1..Len(cpd_df.rows) :
                            LET t == Take(AsStr(cpd_df.rows[i][j]), YearChars)
                            IN  Len(t) = YearChars /\ (\A n \in 1..Len(t) : IsDigit(t[n]))
                                => policy_df.rows[i][j] = Num(FourDigitYear(t))
            /\ all_dfs = <<PageScenario>> =>
                  policy_df = [columns |-> <<tPolicyName, tImplementationYear, tRegion>>,
                               rows |-> << <<Str(tNetZeroAct), Num(2020), Str(tEU)>> >>]

C4_Witness ==
    /\ cpd_pc = "done"
    /\ Cardinality({j \in 1..Len(cpd_df.columns) : Qualifies(cpd_df.columns[j])}) > 1
    /\ year_col = <<tUPDATED>>
    /\ \E i \in 1..Len(policy_df.rows) :
          Cell(policy_df, i, tImplementationYear) = Num(2020)

\* the rows of policy_df the overlay should match, by index
MatchingRows ==
    {i \in 1..Len(policy_df.rows) :
        /\ Cell(policy_df, i, tImplementationYear) = Num(policy_year)
        /\ HasColumn(policy_df, tCountry) =>
              /\ Cell(policy_df, i, tCountry).k = "str"
              /\ Contains(Lower(Cell(policy_df, i, tCountry).v), Lower(country))}

KthOf(S, k) == CHOOSE i \in S : Cardinality({j \in S : j < i}) = k - 1

C10_OverlayNeverRaises ==
    ~IsEmpty(policy_df) /\ ~IsEmpty(policy_year_df) => tab_pc # "raised"

(***************************************************************************)
(* extract_environment_policies (lines 182-223).                           *)
(*                                                                         *)
(* A JSON object is a record with the set of its keys; a text value of it  *)
(* is a string, so that the join of line 218 is computed.                  *)
(***************************************************************************)
JNone == [k |-> "none", v |-> ""]
JStr(s) == [k |-> "str", v |-> s]

\* dict.get(key), None when the key is absent
Get(obj, key) == IF key \in obj.keys THEN JStr(obj[key]) ELSE JNone

\* line 208: item.get("agencies", [])
AgenciesOf(it) == IF "agencies" \in it.keys THEN it.agencies ELSE <<>>

\* line 211: isinstance(agency, dict) and "name" in agency
NameBearing(e) == e.dict /\ e.has_name

\* lines 209-212
RECURSIVE AgencyNames(_)
AgencyNames(agencies) ==
    IF agencies = <<>> THEN <<>>
    ELSE (IF NameBearing(Head(agencies)) THEN <<Head(agencies).name>> ELSE <<>>)
         \o AgencyNames(Tail(agencies))

\* sep.join(names)
RECURSIVE Join(_, _)
Join(sep, names) ==
    IF names = <<>> THEN ""
    ELSE IF Len(names) = 1 THEN names[1]
    ELSE Join(sep, SubSeq(names, 1, Len(names) - 1)) \o sep \o names[Len(names)]

\* AgencyField without the "N/A" default
AgencyFieldNoDefault(names) == Join(", ", names)

\* line 218
AgencyField(names) == IF names # <<>> THEN Join(", ", names) ELSE "N/A"

\* lines 214-221, given the names of line 209
RecordOf(it, y, names) ==
    [policy_name |-> Get(it, "title"),
     policy_type |-> Get(it, "type"),
     implementation_year |-> y,
     agency |-> AgencyField(names),
     source |-> "US Federal Register",
     source_url |-> Get(it, "html_url")]

\* lines 208-221
MakeRecord(it, y) == RecordOf(it, y, AgencyNames(AgenciesOf(it)))

\* the entries an agencies list may hold: {"id": 1}, {"name": ...}, a bare
\* string
EntryIdOnly == [dict |-> TRUE, has_name |-> FALSE, name |-> ""]
EntryEPA == [dict |-> TRUE, has_name |-> TRUE, name |-> "EPA"]
EntryDOE == [dict |-> TRUE, has_name |-> TRUE, name |-> "DOE"]
EntryBare == [dict |-> FALSE, has_name |-> FALSE, name |-> ""]
Entries == {EntryIdOnly, EntryEPA, EntryDOE, EntryBare}

AgencyLists == UNION {[1..n -> Entries] : n \in 0..MaxAgencies}

ItemWith(agencies) ==
    [keys |-> {"title", "type", "agencies", "html_url"},
     title |-> "Clean Air Rule", type |-> "Rule",
     html_url |-> "https://www.federalregister.gov/d/1", agencies |-> agencies]

\* an item without agencies, title or type
ItemBare ==
    [keys |-> {"html_url"}, title |-> "", type |-> "",
     html_url |-> "https://www.federalregister.gov/d/2", agencies |-> <<>>]

Items == {ItemWith(a) : a \in AgencyLists} \cup {ItemBare}

\* the results lists a page of the register may carry
ResultLists ==
    {<<ItemWith(<<EntryIdOnly, EntryEPA>>)>>,
     <<ItemWith(<<EntryEPA, EntryDOE>>), ItemBare>>,
     <<ItemBare>>}

SelectedYears == {1995, 2025}

\* a response: the request failed, the body is no JSON, or the body is a JSON
\* object, with or without "results"
RespError == [kind |-> "error", has_results |-> FALSE, results |-> <<>>]
RespBadBody == [kind |-> "badjson", has_results |-> FALSE, results |-> <<>>]
RespJson(has, results) == [kind |-> "json", has_results |-> has, results |-> results]

ApiLooping == api_pc = "loop" /\ api_page <= api_max_pages

\* lines 187-201: requests.get or raise_for_status raises
ApiRequestError ==
    /\ ApiLooping
    /\ api_requested' = Append(api_requested, api_page)
    /\ api_served' = Append(api_served, RespError)
    /\ api_pc' = "break"
    /\ UNCHANGED <<year, api_max_pages, api_page, all_records, api_result>>
    /\ UNCHANGED <<cpdVars, tabVars, itemVars, emVars>>

\* lines 187-201: response.json() raises
ApiBadBody ==
    /\ ApiLooping
    /\ api_requested' = Append(api_requested, api_page)
    /\ api_served' = Append(api_served, RespBadBody)
    /\ api_pc' = "break"
    /\ UNCHANGED <<year, api_max_pages, api_page, all_records, api_result>>
    /\ UNCHANGED <<cpdVars, tabVars, itemVars, emVars>>

\* ApiNoResults with `continue` for `break`
ApiNoResultsContinue ==
    /\ ApiLooping
    /\ api_requested' = Append(api_requested, api_page)
    /\ \E has \in BOOLEAN : api_served' = Append(api_served, RespJson(has, <<>>))
    /\ api_page' = api_page + 1
    /\ UNCHANGED <<year, api_max_pages, api_pc, all_records, api_result>>
    /\ UNCHANGED <<cpdVars, tabVars, itemVars, emVars>>

\* lines 187-205: no "results" key, or an empty list
ApiNoResults ==
    /\ ApiLooping
    /\ api_requested' = Append(api_requested, api_page)
    /\ \E has \in BOOLEAN : api_served' = Append(api_served, RespJson(has, <<>>))
    /\ api_pc' = "break"
    /\ UNCHANGED <<year, api_max_pages, api_page, all_records, api_result>>
    /\ UNCHANGED <<cpdVars, tabVars, itemVars, emVars>>

\* lines 187-221: a page with results
ApiPage ==
    /\ ApiLooping
    /\ api_requested' = Append(api_requested, api_page)
    /\ \E results \in ResultLists :
          /\ api_served' = Append(api_served, RespJson(TRUE, results))
          /\ all_records' = all_records \o
                 [n \in 1..Len(results) |-> MakeRecord(results[n], year)]
    /\ api_page' = api_page + 1
    /\ UNCHANGED <<year, api_max_pages, api_pc, api_result>>
    /\ UNCHANGED <<cpdVars, tabVars, itemVars, emVars>>

\* line 223
ApiReturn ==
    /\ \/ api_pc = "break"
       \/ api_pc = "loop" /\ api_page > api_max_pages
    /\ api_result' = all_records
    /\ api_pc' = "done"
    /\ UNCHANGED <<year, api_max_pages, api_page, all_records, api_requested, api_served>>
    /\ UNCHANGED <<cpdVars, tabVars, itemVars, emVars>>

InitApi ==
    /\ IdleCpd
    /\ IdleEm
    /\ IdleSidebar
    /\ IdleItem
    /\ year \in SelectedYears
    /\ api_max_pages \in 0..MaxApiPages
    /\ api_page = 1
    /\ all_records = <<>>
    /\ api_requested = <<>>
    /\ api_served = <<>>
    /\ api_pc = "loop"
    /\ api_result = <<>>

NextApi ==
    \/ ApiRequestError
    \/ ApiBadBody
    \/ ApiNoResults
    \/ ApiPage
    \/ ApiReturn

SpecApi == InitApi /\ [][NextApi]_vars

(***************************************************************************)
(* Lines 207-221 on one raw item, the comprehension taken entry by entry.  *)
(***************************************************************************)
\* lines 209-212: one entry inspected
AgencyStep ==
    /\ item_pc = "names"
    /\ agency_i <= Len(AgenciesOf(item))
    /\ agency_names' =
          IF NameBearing(AgenciesOf(item)[agency_i])
          THEN Append(agency_names, AgenciesOf(item)[agency_i].name)
          ELSE agency_names
    /\ agency_i' = agency_i + 1
    /\ UNCHANGED <<item, record, item_pc>>
    /\ UNCHANGED <<cpdVars, tabVars, apiVars, emVars>>

\* lines 214-221
AppendRecord ==
    /\ item_pc = "names"
    /\ agency_i > Len(AgenciesOf(item))
    /\ record' = <<RecordOf(item, 2025, agency_names)>>
    /\ item_pc' = "done"
    /\ UNCHANGED <<item, agency_i, agency_names>>
    /\ UNCHANGED <<cpdVars, tabVars, apiVars, emVars>>

InitItem ==
    /\ IdleCpd
    /\ IdleEm
    /\ IdleSidebar
    /\ IdleApi
    /\ item \in Items
    /\ agency_i = 1
    /\ agency_names = <<>>
    /\ record = <<>>
    /\ item_pc = "names"

NextItem ==
    \/ AgencyStep
    \/ AppendRecord

SpecItem == InitItem /\ [][NextItem]_vars

(***************************************************************************)
(* Claims on extract_environment_policies (SpecApi, SpecItem).             *)
(***************************************************************************)
\* the response ends pagination
StopsPagination(r) == r.kind # "json" \/ ~r.has_results \/ r.results = <<>>

ApiStoppedAt == {i \in 1..Len(api_served) : StopsPagination(api_served[i])}

\* the records of the items of the responses, in order
RECURSIVE RecordsOf(_, _)
RecordsOf(responses, y) ==
    IF responses = <<>> THEN <<>>
    ELSE [n \in 1..Len(Head(responses).results) |->
             MakeRecord(Head(responses).results[n], y)]
         \o RecordsOf(Tail(responses), y)

\* C2: pages are requested in order 1, 2, .. up to max_pages; pagination stops
\* at the first page whose request errors, whose body does not parse or
\* whose results are empty; nothing is requested after it; the records
\* returned are those of the earlier pages; results=[] on page 1 gives an
\* empty result without a request for page 2.
C2_PaginationStopsAtFirstEmptyOrError ==
    /\ Len(api_served) = Len(api_requested)
    /\ Len(api_requested) <= api_max_pages
    /\ \A i \in 1..Len(api_requested) : api_requested[i] = i
    /\ \A i \in ApiStoppedAt : i = Len(api_served)
    /\ ApiStoppedAt # {} => api_pc # "loop"
    /\ api_pc = "done" /\ ApiStoppedAt = {} => Len(api_requested) = api_max_pages
    /\ api_pc = "done" =>
          /\ api_result = RecordsOf(SubSeq(api_served, 1,
                                   Len(api_served) - Cardinality(ApiStoppedAt)), year)
          /\ \A n \in 1..Len(api_result) : api_result[n].implementation_year = year
    /\ api_pc = "done" /\ api_max_pages > 0 /\ api_served[1] = RespJson(TRUE, <<>>) =>
          api_result = <<>> /\ api_requested = <<1>>

C2_Witness ==
    /\ api_pc = "done"
    /\ api_max_pages >= 3
    /\ api_requested = <<1, 2>>
    /\ api_served[2] = RespJson(TRUE, <<>>)
    /\ Len(api_result) = 2

NamedEntries(agencies) == SelectSeq(agencies, LAMBDA e : e.dict /\ e.has_name)

RECURSIVE CommaList(_)
CommaList(entries) ==
    IF Len(entries) = 1 THEN entries[1].name
    ELSE entries[1].name \o ", " \o CommaList(Tail(entries))

\* C9: the agency field is the ", "-joined names, in order, of the entries
\* that are records with a name, malformed entries being skipped; it is
\* "N/A" when no entry has a name, an absent or empty list included;
\* [{"id":1}, {"name":"EPA"}] gives "EPA".
C9_AgencyIsJoinedNamesOrNA ==
    item_pc = "done" =>
        LET named == NamedEntries(IF "agencies" \in item.keys THEN item.agencies ELSE <<>>)
        IN  /\ named = <<>> => record[1].agency = "N/A"
            /\ named # <<>> => record[1].agency = CommaList(named)
            /\ item.agencies = <<EntryIdOnly, EntryEPA>> => record[1].agency = "EPA"
            /\ record[1].agency = MakeRecord(item, 2025).agency

C9_Witness ==
    /\ item_pc = "done"
    /\ item.agencies = <<EntryBare, EntryEPA>>
    /\ record[1].agency = "EPA"

(***************************************************************************)
(* tab1: the emissions table, its reshaping (lines 75-111) and the impact  *)
(* summary (lines 161-173).                                                *)
(*                                                                         *)
(* Emissions are integers; a mean and a percentage are exact fractions     *)
(* [k |-> "num", n, d] with d > 0, NaN otherwise; a metric shows a number  *)
(* of hundredths [k |-> "num", h] or a text.  The overlay of lines 122-149 *)
(* that runs between the two parts is SpecCpd's.                           *)
(***************************************************************************)
tISO == <<"I","S","O">>
tSector == <<"S","e","c","t","o","r">>
tGas == <<"G","a","s">>
tUnit == <<"U","n","i","t">>
tNotes == <<"N","o","t","e","s">>
t2010 == <<"2","0","1","0">>
t2011 == <<"2","0","1","1">>
t2012 == <<"2","0","1","2">>
tX == <<"X">>
tY == <<"Y">>
tEnergy == <<"E","n","e","r","g","y">>
tWaste == <<"W","a","s","t","e">>
tCO2 == <<"C","O","2">>
tCH4 == <<"C","H","4">>
tMt == <<"M","t">>
tDashes == <<"-","-">>
t120 == <<"1","2","0">>

IdVars == <<tISO, tCountry, tSector, tGas, tUnit>>

\* the headers of data/climate_data.csv: years ascending, or years in
\* another order followed by a column that is neither an id nor a year
Layouts ==
    {IdVars \o <<t2010, t2011, t2012>>,
     IdVars \o <<t2012, t2010, t2011, tNotes>>}

\* a row of the file, as a function of the header
WideRow(iso, ctry, sect, gas, v2010, v2011, v2012) ==
    [c \in {tISO, tCountry, tSector, tGas, tUnit, t2010, t2011, t2012, tNotes} |->
        CASE c = tISO -> iso
          [] c = tCountry -> Str(ctry)
          [] c = tSector -> Str(sect)
          [] c = tGas -> Str(gas)
          [] c = tUnit -> Str(tMt)
          [] c = t2010 -> v2010
          [] c = t2011 -> v2011
          [] c = t2012 -> v2012
          [] OTHER -> NaN]

\* RowScenario is the row of the spec's scenario; RowGaps has a missing and
\* an unparseable cell; RowZero averages to zero before 2012; RowNoIso has no
\* ISO code; RowText has a number read as text and a negative value.
RowScenario == WideRow(Str(tX), tX, tEnergy, tCO2, Num(100), Num(120), Num(90))
RowGaps == WideRow(Str(tX), tX, tEnergy, tCH4, NaN, Str(tDashes), Num(50))
RowZero == WideRow(Str(tX), tX, tWaste, tCO2, Num(0), Num(0), Num(30))
RowNoIso == WideRow(NaN, tY, tEnergy, tCO2, Num(10), Num(20), Num(40))
RowText == WideRow(Str(tY), tY, tWaste, tCH4, Num(0 - 30), Str(t120), NaN)
FileRows == {RowScenario, RowGaps, RowZero, RowNoIso, RowText}

WideTable(layout, rws) ==
    [columns |-> layout,
     rows |-> [i \in 1..Len(rws) |-> [j \in 1..Len(layout) |-> rws[i][layout[j]]]]]

WideTables ==
    {WideTable(l, rws) : l \in Layouts,
                         rws \in UNION {[1..n -> FileRows] : n \in 1..MaxWideRows}}

\* str.isdigit()
IsDigits(s) == Len(s) > 0 /\ \A i \in 1..Len(s) : IsDigit(s[i])

\* line 77
YearCols(df) == SelectSeq(df.columns, IsDigits)

\* line 98: df[df["Country"] == country], as row indices
CountryRows(df, ctry) ==
    SelectSeq([i \in 1..Len(df.rows) |-> i],
              LAMBDA i : Cell(df, i, tCountry) = Str(ctry))

\* lines 107-108: one melted row, Year cast to int, Emissions to numeric
Point(df, i, col) ==
    LET v == Cell(df, i, col)
    IN  [ISO |-> Cell(df, i, tISO), Country |-> Cell(df, i, tCountry),
         Sector |-> Cell(df, i, tSector), Gas |-> Cell(df, i, tGas),
         Unit |-> Cell(df, i, tUnit), Year |-> DigitsValue(col),
         Emissions |-> IF v.k = "str" THEN ToNumeric(v.v) ELSE v]

\* lines 100-108: melt puts the year columns one after the other, the rows
\* of country_df in order under each
RECURSIVE Melt(_, _, _)
Melt(df, idx, cols) ==
    IF cols = <<>> THEN <<>>
    ELSE [n \in 1..Len(idx) |-> Point(df, idx[n], Head(cols))]
         \o Melt(df, idx, Tail(cols))

\* line 109: dropna() drops a row with a NaN in any column
NoNaN(p) ==
    /\ ~IsNull(p.ISO) /\ ~IsNull(p.Country) /\ ~IsNull(p.Sector)
    /\ ~IsNull(p.Gas) /\ ~IsNull(p.Unit) /\ ~IsNull(p.Emissions)

\* lines 98-109
LongDf(df, ctry) == SelectSeq(Melt(df, CountryRows(df, ctry), YearCols(df)), NoNaN)

\* the orders in which the points of S (positions in pts) can follow each
\* other with Year non-decreasing
RECURSIVE OrdersOf(_, _)
OrdersOf(pts, S) ==
    IF S = {} THEN {<<>>}
    ELSE UNION {{<<pts[i]>> \o rest : rest \in OrdersOf(pts, S \ {i})} :
                   i \in {m \in S : \A o \in S : pts[m].Year <= pts[o].Year}}

\* line 111: sort_values("Year"), whose default kind fixes no order of ties
SortedOrders(pts) == OrdersOf(pts, 1..Len(pts))

\* line 111: long_df[long_df["Sector"] == sector]
OfSector(pts, sect) == SelectSeq(pts, LAMBDA p : p.Sector = Str(sect))

Frac(n, d) == [k |-> "num", n |-> n, d |-> d]

RECURSIVE SumOf(_)
SumOf(pts) == IF pts = <<>> THEN 0 ELSE Head(pts).Emissions.v + SumOf(Tail(pts))

\* Series.mean(): NaN for no value
Mean(pts) == IF pts = <<>> THEN NaN ELSE Frac(SumOf(pts), Len(pts))

\* Before with <= for <
BeforeInclusive(pts, y) == SelectSeq(pts, LAMBDA p : p.Year <= y)

\* line 161
Before(pts, y) == SelectSeq(pts, LAMBDA p : p.Year < y)

\* line 162
After(pts, y) == SelectSeq(pts, LAMBDA p : p.Year >= y)

\* the integer nearest to n / d (d > 0), a tie going to the even one
RoundHalfEven(n, d) ==
    LET q == n \div d
        r == n % d
    IN  IF 2 * r < d THEN q
        ELSE IF 2 * r > d THEN q + 1
        ELSE IF q % 2 = 0 THEN q ELSE q + 1

\* round(x, 2), in hundredths
Round2(x) == IF x.k = "nan" THEN NaN ELSE [k |-> "num", h |-> RoundHalfEven(100 * x.n, x.d)]

\* line 170: before > 0, False for NaN
Positive(x) == x.k = "num" /\ x.n > 0

\* line 171: ((after - before) / before) * 100, NaN when after is
PercentChange(b, a) ==
    IF a.k = "nan" THEN NaN
    ELSE Frac(100 * (a.n * b.d - b.n * a.d) * b.d, a.d * b.d * b.n)

NotAvailable == [k |-> "text", s |-> "N/A"]

\* lines 98-111
Reshape ==
    /\ em_pc = "start"
    /\ long_df' = LongDf(wide_df, country)
    /\ plot_df' \in SortedOrders(OfSector(long_df', sector))
    /\ em_pc' = "summary"
    /\ UNCHANGED <<wide_df, sector, before, after, c1, c2, c3>>
    /\ UNCHANGED <<cpdVars, tabVars, apiVars, itemVars>>

\* lines 161-173
Summary ==
    /\ em_pc = "summary"
    /\ before' = Mean(Before(plot_df, policy_year))
    /\ after' = Mean(After(plot_df, policy_year))
    /\ c1' = Round2(before')
    /\ c2' = Round2(after')
    /\ c3' = IF Positive(before') THEN Round2(PercentChange(before', after'))
             ELSE NotAvailable
    /\ em_pc' = "done"
    /\ UNCHANGED <<wide_df, sector, long_df, plot_df>>
    /\ UNCHANGED <<cpdVars, tabVars, apiVars, itemVars>>

\* lines 75-96: the file and the sidebar's selections
InitEm ==
    /\ IdleCpd
    /\ IdleApi
    /\ IdleItem
    /\ wide_df \in WideTables
    /\ country \in {tX, tY}
    /\ sector \in {tEnergy, tWaste}
    /\ \E i \in 1..Len(wide_df.rows) :
          /\ Cell(wide_df, i, tCountry) = Str(country)
          /\ Cell(wide_df, i, tSector) = Str(sector)
    /\ policy_year \in 2010..2012
    /\ long_df = <<>>
    /\ plot_df = <<>>
    /\ before = NaN
    /\ after = NaN
    /\ c1 = NaN
    /\ c2 = NaN
    /\ c3 = NaN
    /\ em_pc = "start"

NextEm ==
    \/ Reshape
    \/ Summary

SpecEm == InitEm /\ [][NextEm]_vars

(***************************************************************************)
(* Claims on the emissions series and the impact summary (SpecEm).         *)
(***************************************************************************)
\* the positions of plot_df before policy_year, and from it on
BeforeAt == {i \in 1..Len(plot_df) : plot_df[i].Year < policy_year}
AfterAt == {i \in 1..Len(plot_df) : plot_df[i].Year >= policy_year}

RECURSIVE TotalAt(_)
TotalAt(S) ==
    IF S = {} THEN 0
    ELSE LET i == CHOOSE i \in S : TRUE
         IN  plot_df[i].Emissions.v + TotalAt(S \ {i})

\* x is the mean of the points at S, undefined for no point
IsMeanAt(x, S) ==
    IF S = {} THEN x.k = "nan"
    ELSE x.k = "num" /\ x.n * Cardinality(S) = TotalAt(S) * x.d

\* the metric m shows the hundredth nearest to n / d (d > 0)
ShowsRounded(m, n, d) ==
    /\ m.k = "num"
    /\ 2 * (m.h * d - 100 * n) <= d
    /\ 2 * (100 * n - m.h * d) <= d

\* C5: avg_before is the mean of Emissions over Year < policy_year and
\* avg_after the mean over Year >= policy_year; percent_change is
\* (avg_after - avg_before) / avg_before * 100 (shown rounded to 2 places)
\* when avg_before > 0, and "N/A" when avg_before is 0 or undefined, for any
\* avg_after; 2010=100, 2011=120, 2012=90 with policy_year 2011 gives 100,
\* 105 and 5.
C5_PercentChangeOrNotAvailable ==
    em_pc = "done" =>
        LET sb == TotalAt(BeforeAt)
            nb == Cardinality(BeforeAt)
            sa == TotalAt(AfterAt)
            na == Cardinality(AfterAt)
        IN  /\ IsMeanAt(before, BeforeAt)
            /\ IsMeanAt(after, AfterAt)
            /\ nb > 0 => ShowsRounded(c1, sb, nb)
            /\ na > 0 => ShowsRounded(c2, sa, na)
            /\ nb > 0 /\ sb > 0 /\ na > 0 =>
                  ShowsRounded(c3, 100 * (sa * nb - sb * na), na * sb)
            /\ nb = 0 \/ sb = 0 => c3.k = "text" /\ c3.s = "N/A"
            /\ /\ policy_year = 2011
               /\ [i \in 1..Len(plot_df) |-> <<plot_df[i].Year, plot_df[i].Emissions.v>>]
                      = <<<<2010, 100>>, <<2011, 120>>, <<2012, 90>>>>
               => /\ before.n = 100 * before.d
                  /\ after.n = 105 * after.d
                  /\ c1.h = 10000 /\ c2.h = 10500 /\ c3.h = 500

C5_Witness ==
    /\ em_pc = "done"
    /\ BeforeAt # {}
    /\ TotalAt(BeforeAt) = 0
    /\ AfterAt # {}
    /\ TotalAt(AfterAt) > 0
    /\ c3.k = "text"

\* the cells of the selected country and sector: (row, year column)
SeriesCells ==
    {e \in (1..Len(wide_df.rows)) \X {wide_df.columns[j] : j \in 1..Len(wide_df.columns)} :
        /\ IsDigits(e[2])
        /\ Cell(wide_df, e[1], tCountry) = Str(country)
        /\ Cell(wide_df, e[1], tSector) = Str(sector)}

\* the Emissions cell reads as a number
Parses(c) == c.k = "num" \/ (c.k = "str" /\ ToNumeric(c.v).k = "num")

ParsedCells == {e \in SeriesCells : Parses(Cell(wide_df, e[1], e[2]))}

\* C7: the reshaped series is sorted non-decreasing by Year and holds exactly
\* one point for each (row of the country and sector, year column) whose
\* Emissions cell parses as a number; a pair is dropped if and only if its
\* cell is missing or unparseable, and no dropped cell shows as a value.
C7_SeriesIsSortedAndDropsOnlyUnparsed ==
    em_pc \in {"summary", "done"} =>
        /\ \A i \in 1..(Len(plot_df) - 1) : plot_df[i].Year <= plot_df[i + 1].Year
        /\ Len(plot_df) = Cardinality(ParsedCells)
        /\ \A e \in ParsedCells :
              Cardinality({i \in 1..Len(plot_df) : plot_df[i] = Point(wide_df, e[1], e[2])})
                  = Cardinality({f \in ParsedCells :
                                    Point(wide_df, f[1], f[2]) = Point(wide_df, e[1], e[2])})

====
